---- MODULE Spec2Model ----
(***************************************************************************)
(* Model of packages/platform-ios/src/commands/runIOS/index.js: one run of *)
(* the run-ios command.  The run is a single JavaScript thread; its        *)
(* position is pc.  Synchronous child processes (execFileSync, execSync,   *)
(* spawnSync) are split into the spawn and the return, so that the set of  *)
(* live child processes is visible; the build (child_process.spawn) runs   *)
(* asynchronously and is driven by its data, exit and close events.        *)
(*                                                                         *)
(* JavaScript strings are sequences of tokens, so that string              *)
(* concatenation is \o and string equality is sequence equality.           *)
(***************************************************************************)
EXTENDS Integers, Sequences, FiniteSets, TLC

\* ---------------------------------------------------------------- bounds
MaxDevices == 2     \* longest physical-device list enumerated
MaxChunks == 2      \* most data events the build delivers on its two streams

\* ------------------------------------------------------- JavaScript values
Null == [t |-> "null"]
Undefined == [t |-> "undefined"]
True == [t |-> "true"]
Str(s) == [t |-> "string", v |-> s]

\* ToBoolean of a flag value: undefined and "" are falsy, true and every
\* non-empty string are truthy.
Truthy(x) == x.t = "true" \/ (x.t = "string" /\ x.v # <<>>)

\* === between a string and a flag value
StrictEq(s, x) == x.t = "string" /\ x.v = s

\* -------------------------------------------------------- pure functions

\* a || b
Or(a, b) == IF Truthy(a) THEN a ELSE b

\* path.basename(name, path.extname(name)): the name without its extension,
\* the extension being the last token when it starts with a dot.
IsExtension(tok) == tok \in {".xcodeproj", ".xcworkspace"}
inferredSchemeName(name) ==
    IF Len(name) > 1 /\ IsExtension(name[Len(name)])
    THEN SubSeq(name, 1, Len(name) - 1)
    ELSE name

formattedDeviceName(simulator) ==
    simulator.name \o <<" (", simulator.version, ")">>

RECURSIVE matchingDeviceLoop(_, _, _)
matchingDeviceLoop(devs, deviceName, i) ==
    IF i < 1 THEN Null
    ELSE IF StrictEq(devs[i].name, deviceName)
            \/ StrictEq(formattedDeviceName(devs[i]), deviceName)
         THEN devs[i]
         ELSE matchingDeviceLoop(devs, deviceName, i - 1)

\* variant: the first device is taken whenever there is one
usesFirstAvailableOfMany(devs, deviceName) == deviceName = True /\ Len(devs) >= 1

\* TRUE when matchingDevice takes its "lack of name supplied" branch
usesFirstAvailable(devs, deviceName) == deviceName = True /\ Len(devs) = 1

\* variant: only the bare name is compared, not the "name (version)" form
RECURSIVE matchingDeviceNameLoop(_, _, _)
matchingDeviceNameLoop(devs, deviceName, i) ==
    IF i < 1 THEN Null
    ELSE IF StrictEq(devs[i].name, deviceName)
         THEN devs[i]
         ELSE matchingDeviceNameLoop(devs, deviceName, i - 1)

matchingDeviceNameOnly(devs, deviceName) ==
    IF usesFirstAvailable(devs, deviceName)
    THEN devs[1]
    ELSE matchingDeviceNameLoop(devs, deviceName, Len(devs))

matchingDevice(devs, deviceName) ==
    IF usesFirstAvailable(devs, deviceName)
    THEN devs[1]
    ELSE matchingDeviceLoop(devs, deviceName, Len(devs))

RECURSIVE matchingDeviceByUdidLoop(_, _, _)
matchingDeviceByUdidLoop(devs, udid, i) ==
    IF i < 1 THEN Null
    ELSE IF StrictEq(devs[i].udid, udid)
         THEN devs[i]
         ELSE matchingDeviceByUdidLoop(devs, udid, i - 1)

\* variant: scans from the front, so the first device with the udid wins
RECURSIVE matchingDeviceByUdidForward(_, _, _)
matchingDeviceByUdidForward(devs, udid, i) ==
    IF i > Len(devs) THEN Null
    ELSE IF StrictEq(devs[i].udid, udid)
         THEN devs[i]
         ELSE matchingDeviceByUdidForward(devs, udid, i + 1)

matchingDeviceByUdidFirst(devs, udid) == matchingDeviceByUdidForward(devs, udid, 1)

matchingDeviceByUdid(devs, udid) == matchingDeviceByUdidLoop(devs, udid, Len(devs))

RECURSIVE printFoundDevicesLoop(_, _)
printFoundDevicesLoop(devs, i) ==
    IF i < 1 THEN <<>>
    ELSE devs[i].name \o <<" Udid: ">> \o devs[i].udid \o <<"\n">>
         \o printFoundDevicesLoop(devs, i - 1)

\* variant: the loop stops one short and leaves out the first device
RECURSIVE printFoundDevicesShortLoop(_, _)
printFoundDevicesShortLoop(devs, i) ==
    IF i <= 1 THEN <<>>
    ELSE devs[i].name \o <<" Udid: ">> \o devs[i].udid \o <<"\n">>
         \o printFoundDevicesShortLoop(devs, i - 1)

printFoundDevicesSkipFirst(devs) == printFoundDevicesShortLoop(devs, Len(devs))

printFoundDevices(devs) == printFoundDevicesLoop(devs, Len(devs))

\* the characters of a token, lower-cased; a token not listed is one
\* character that toLowerCase leaves alone
lowerChars(tok) ==
    CASE tok = "tvOS" -> <<"t", "v", "o", "s">>
      [] tok = "TV" -> <<"t", "v">>
      [] tok = "os" -> <<"o", "s">>
      [] tok = "My" -> <<"m", "y">>
      [] tok = "App" -> <<"a", "p", "p">>
      [] tok = "M" -> <<"m">>
      [] OTHER -> <<tok>>

\* String.prototype.toLowerCase
RECURSIVE toLowerCase(_)
toLowerCase(str) ==
    IF str = <<>> THEN <<>>
    ELSE lowerChars(Head(str)) \o toLowerCase(Tail(str))

\* String.prototype.includes
includes(str, pat) ==
    \E k \in 0..(Len(str) - Len(pat)) : SubSeq(str, k + 1, k + Len(pat)) = pat

\* variant: the name is searched for 'tvos' without being lower-cased
getBuildPathCaseSensitive(configuration, name, isDevice, sch) ==
    LET device ==
            IF isDevice THEN "iphoneos"
            ELSE IF includes(name, <<"t", "v", "o", "s">>)
                 THEN "appletvsimulator"
                 ELSE "iphonesimulator"
    IN <<"build/">> \o sch \o <<"/Build/Products/">> \o configuration
       \o <<"-", device, "/">> \o name \o <<".app">>

getBuildPath(configuration, name, isDevice, sch) ==
    LET device ==
            IF isDevice THEN "iphoneos"
            ELSE IF includes(toLowerCase(name), <<"t", "v", "o", "s">>)
                 THEN "appletvsimulator"
                 ELSE "iphonesimulator"
    IN <<"build/">> \o sch \o <<"/Build/Products/">> \o configuration
       \o <<"-", device, "/">> \o name \o <<".app">>

\* /export FULL_PRODUCT_NAME="?(.+).app"?$/m over tokens:
\*   "EXP" is the literal 'export FULL_PRODUCT_NAME=', "Q" the double quote,
\*   "NL" the line terminator, "app" the literal 'app'; every other token is
\*   one character.  '.' matches any token but "NL"; '$' matches before "NL"
\*   and at the end of the text.
LineEnd(text, i) ==
    CHOOSE e \in i..(Len(text) + 1) :
        /\ e = Len(text) + 1 \/ text[e] = "NL"
        /\ \A k \in i..(e - 1) : text[k] # "NL"

\* the capture of a match starting at token i, Null if none starts there
productNameMatchAt(text, i) ==
    IF text[i] # "EXP" THEN Null
    ELSE LET last == LineEnd(text, i) - 1
             appPos == IF last > i /\ text[last] = "app" THEN last
                       ELSE IF last - 1 > i /\ text[last] = "Q"
                               /\ text[last - 1] = "app"
                            THEN last - 1
                            ELSE 0
             dotPos == appPos - 1
             quoted == i + 1 <= Len(text) /\ text[i + 1] = "Q"
         IN IF appPos = 0 THEN Null
            ELSE IF quoted /\ dotPos - 1 >= i + 2
                 THEN Str(SubSeq(text, i + 2, dotPos - 1))
                 ELSE IF dotPos - 1 >= i + 1
                      THEN Str(SubSeq(text, i + 1, dotPos - 1))
                      ELSE Null

\* variant: the exec result is taken from the last match in the text
getProductNameLast(text) ==
    LET starts == {i \in 1..Len(text) : productNameMatchAt(text, i) # Null}
    IN IF starts = {} THEN Null
       ELSE productNameMatchAt(text, CHOOSE i \in starts : \A j \in starts : i >= j)

getProductName(text) ==
    LET starts == {i \in 1..Len(text) : productNameMatchAt(text, i) # Null}
    IN IF starts = {} THEN Null
       ELSE productNameMatchAt(text, CHOOSE i \in starts : \A j \in starts : i <= j)

\* Buffer.prototype.toString (utf8): "h1" "h2" are the two bytes of one
\* two-byte character; a byte of it that arrives without the other decodes
\* to the replacement character.
RECURSIVE toString(_)
toString(data) ==
    IF data = <<>> THEN <<>>
    ELSE IF Len(data) >= 2 /\ data[1] = "h1" /\ data[2] = "h2"
         THEN <<"e'">> \o toString(SubSeq(data, 3, Len(data)))
         ELSE IF data[1] \in {"h1", "h2"}
              THEN <<"FFFD">> \o toString(Tail(data))
              ELSE <<data[1]>> \o toString(Tail(data))

\* ------------------------------------------------------------ input domains
DeviceNames == {<<"iPhone 8">>, <<"iPad">>}
DeviceVersions == {"12.0", "13.0"}
DeviceUdids == {<<"u1">>, <<"u2">>}
Devices == [name : DeviceNames, version : DeviceVersions, udid : DeviceUdids]

RECURSIVE SeqsUpTo(_, _)
SeqsUpTo(S, n) ==
    IF n = 0 THEN {<<>>}
    ELSE LET shorter == SeqsUpTo(S, n - 1)
         IN shorter \cup {Append(s, x) : s \in {q \in shorter : Len(q) = n - 1}, x \in S}

DeviceLists == SeqsUpTo(Devices, MaxDevices)

DeviceFlags ==
    {Undefined, True, Str(<<"iPhone 8">>),
     Str(<<"iPhone 8", " (", "13.0", ")">>), Str(<<"iPad">>)}
UdidFlags == {Undefined, Str(<<>>), Str(<<"u1">>), Str(<<"u3">>)}
SchemeFlags == {Undefined, Str(<<"My", "TV", "os">>)}
\* the flags of a run: a device selector, a udid selector, neither, or both
Args ==
    {a \in [device : DeviceFlags, udid : UdidFlags, scheme : SchemeFlags,
            verbose : BOOLEAN, configuration : {<<"Debug">>, <<"Release">>}] :
        \/ a.device = Undefined
        \/ a.udid = Undefined
        \/ a.device = Str(<<"iPad">>) /\ a.udid = Str(<<"u1">>)}

XcodeProjects == {[name |-> <<"App", ".xcodeproj">>, isWorkspace |-> FALSE]}

Simulators ==
    {[name |-> <<"iPhone X">>, version |-> "12.0", udid |-> <<"s1">>, booted |-> b] :
        b \in BOOLEAN}

\* ------------------------------------------------------------------- state
VARIABLES
    pc,             \* position of the run
    args,           \* FlagsT handed to runIOS
    xcodeProject,   \* result of findXcodeProject
    scheme,         \* args.scheme || inferredSchemeName
    devices,        \* parseIOSDevicesList(...) while runIOS is on the stack
    selectedDevice, \* result of matchingDevice / matchingDeviceByUdid
    target,         \* the device or simulator the run builds for
    targets,        \* history: every target the run has selected
    running,        \* synchronous child process being waited for
    alive,          \* child processes spawned by the run and not yet exited
    trace,          \* history: child processes in spawn order
    status,         \* how each synchronous child process ended
    xcpretty,       \* "false" | "alive" | "ended" | "exited"
    xcprettyWrites, \* xcpretty.stdin.write calls
    buildProcess,   \* "none" | "running" | "exited" | "closed"
    exitCode,       \* exit code of xcodebuild
    buildOutput,    \* accumulated stdout text
    errorOutput,    \* accumulated stderr text
    outChunks,      \* stdout data events delivered
    errChunks,      \* stderr data events delivered
    stdoutData,     \* history: the payloads of the stdout data events
    stderrData,     \* history: the payloads of the stderr data events
    promise,        \* buildProject's promise
    settled,        \* resolve/reject calls made by the close handler
    appName,        \* value buildProject resolved with
    log,            \* logger.info / logger.error calls
    result,         \* "pending" | "returned" | "raised"
    error           \* the error raised, Null if none

vars == <<pc, args, xcodeProject, scheme, devices, selectedDevice, target,
          targets, running, alive, trace, status, xcpretty, xcprettyWrites,
          buildProcess, exitCode, buildOutput, errorOutput, outChunks,
          errChunks, stdoutData, stderrData, promise, settled, appName, log,
          result, error>>

envVars == <<args, xcodeProject, scheme>>
selVars == <<devices, selectedDevice, target, targets>>
procVars == <<running, alive, trace, status>>
buildVars == <<xcpretty, xcprettyWrites, buildProcess, exitCode, buildOutput,
               errorOutput, outChunks, errChunks, stdoutData, stderrData,
               promise, settled, appName>>

\* ------------------------------------------------------- child processes
\* child processes the run waits for synchronously; the run is at pc = the
\* process's name when it makes the call
SyncCalls ==
    {"instruments -s", "simctl list", "xcode-select", "open", "instruments -w",
     "xcpretty --version", "simctl install", "PlistBuddy", "simctl launch",
     "ios-deploy"}

\* how a child process can end: exit code 0, a non-zero exit code, or a
\* failure to start it (ENOENT)
SubprocessResults == {"ok", "nonzero", "error"}

\* execFileSync and execSync throw unless the process exits with code 0
execThrows(r) == r # "ok"

\* spawnSync never throws: it returns {status, error}, error being set only
\* when the process could not be started
spawnSyncError(r) == r = "error"

NoCode == 0 - 1
ExitCodes == {0, 1, 65}

Err(kind) == [kind |-> kind, code |-> NoCode, stderr |-> <<>>]
Msg(level, msg, data) == [level |-> level, msg |-> msg, data |-> data]

\* ---------------------------------------------------------------- control
Goto(l) == pc' = l /\ UNCHANGED <<result, error>>
Raise(e) == pc' = "done" /\ result' = "raised" /\ error' = e
Finish == pc' = "done" /\ result' = "returned" /\ UNCHANGED error

\* the synchronous call the run is blocked in returns with result r
SyncReturn(r) ==
    /\ running = pc
    /\ running' = "none"
    /\ alive' = alive \ {pc}
    /\ status' = [status EXCEPT ![pc] = r]
    /\ UNCHANGED trace

Init ==
    /\ pc = "start"
    /\ args \in Args
    /\ xcodeProject = Null
    /\ scheme = Undefined
    /\ devices = <<>>
    /\ selectedDevice = Undefined
    /\ target = Null
    /\ targets = <<>>
    /\ running = "none"
    /\ alive = {}
    /\ trace = <<>>
    /\ status = [p \in SyncCalls |-> "none"]
    /\ xcpretty = "undefined"
    /\ xcprettyWrites = 0
    /\ buildProcess = "none"
    /\ exitCode = NoCode
    /\ buildOutput = <<>>
    /\ errorOutput = <<>>
    /\ outChunks = 0
    /\ errChunks = 0
    /\ stdoutData = <<>>
    /\ stderrData = <<>>
    /\ promise = "none"
    /\ settled = 0
    /\ appName = Undefined
    /\ log = <<>>
    /\ result = "pending"
    /\ error = Null

\* ------------------------------------------------------------------ runIOS
\* fs.existsSync(args.projectPath)
CheckProjectPath ==
    /\ pc = "start"
    /\ \E exists \in BOOLEAN :
        IF ~exists THEN Raise(Err("ProjectFolderNotFound"))
        ELSE Goto("findXcodeProject")
    /\ UNCHANGED <<envVars, selVars, procVars, buildVars, log>>

\* findXcodeProject(fs.readdirSync('.')), the scheme and the "Found Xcode" note
FindXcodeProject ==
    /\ pc = "findXcodeProject"
    /\ \E p \in XcodeProjects \cup {Null} :
        IF p = Null
        THEN /\ Raise(Err("XcodeProjectNotFound"))
             /\ UNCHANGED <<xcodeProject, scheme, log>>
        ELSE /\ xcodeProject' = p
             /\ scheme' = Or(args.scheme, Str(inferredSchemeName(p.name)))
             /\ log' = Append(log, Msg("info", "Found Xcode", p.name))
             /\ Goto("instruments -s")
    /\ UNCHANGED <<args, selVars, procVars, buildVars>>

\* the run starts the synchronous child process of the call it is at
SpawnSync ==
    /\ pc \in SyncCalls
    /\ running = "none"
    /\ running' = pc
    /\ alive' = alive \cup {pc}
    /\ trace' = Append(trace, pc)
    /\ UNCHANGED <<pc, envVars, selVars, status, buildVars, log, result, error>>

\* execFileSync('xcrun', ['instruments', '-s']) returns; parseIOSDevicesList
ListDevices ==
    /\ pc = "instruments -s"
    /\ \E r \in SubprocessResults :
        /\ SyncReturn(r)
        /\ IF execThrows(r)
           THEN Raise(Err("ExecFailed")) /\ UNCHANGED devices
           ELSE \E ds \in DeviceLists : devices' = ds /\ Goto("select")
    /\ UNCHANGED <<envVars, selectedDevice, target, targets, buildVars, log>>

\* variant: the "return" before runOnDevice(...) is missing, so a run that
\* found its device goes on to runOnSimulator as well
SelectDeviceNoReturn ==
    /\ pc = "select"
    /\ IF Truthy(args.device) \/ Truthy(args.udid)
       THEN LET sel == IF Truthy(args.device)
                       THEN matchingDevice(devices, args.device)
                       ELSE matchingDeviceByUdid(devices, args.udid)
            IN /\ selectedDevice' = sel
               /\ IF sel # Null
                  THEN /\ target' = [kind |-> "device", name |-> sel.name,
                                     version |-> sel.version,
                                     udid |-> sel.udid, booted |-> FALSE]
                       /\ targets' = Append(targets, target')
                       /\ Goto("runOnSimulator")
                       /\ UNCHANGED log
                  ELSE /\ log' = Append(log,
                                    Msg("error", "No iOS devices connected.", <<>>))
                       /\ Finish
                       /\ UNCHANGED <<target, targets>>
       ELSE /\ Goto("runOnSimulator")
            /\ UNCHANGED <<selectedDevice, target, targets, log>>
    /\ UNCHANGED <<envVars, devices, procVars, buildVars>>

\* variant: the empty device list is reported before the selectors are
\* looked at
SelectDeviceChecksListFirst ==
    /\ pc = "select"
    /\ IF Len(devices) = 0
       THEN /\ log' = Append(log, Msg("error", "No iOS devices connected.", <<>>))
            /\ selectedDevice' = IF Truthy(args.device) \/ Truthy(args.udid)
                                 THEN Null ELSE selectedDevice
            /\ Finish
       ELSE IF Truthy(args.device) \/ Truthy(args.udid)
       THEN LET sel == IF Truthy(args.device)
                       THEN matchingDevice(devices, args.device)
                       ELSE matchingDeviceByUdid(devices, args.udid)
                note == IF Truthy(args.device)
                           /\ usesFirstAvailable(devices, args.device)
                        THEN <<Msg("info", "Using first available device",
                                   devices[1].name)>>
                        ELSE <<>>
            IN /\ selectedDevice' = sel
               /\ IF sel # Null
                  THEN log' = log \o note /\ Goto("runOnDevice")
                  ELSE /\ log' = log \o note \o
                                <<Msg("error",
                                      IF Truthy(args.device)
                                      THEN "Could not find device with the name"
                                      ELSE "Could not find device with the udid",
                                      printFoundDevices(devices))>>
                       /\ Finish
       ELSE /\ Goto("runOnSimulator")
            /\ UNCHANGED <<selectedDevice, log>>
    /\ UNCHANGED <<envVars, devices, target, targets, procVars, buildVars>>

\* if (device || udid) { ... } of runIOS
SelectDevice ==
    /\ pc = "select"
    /\ IF Truthy(args.device) \/ Truthy(args.udid)
       THEN LET sel == IF Truthy(args.device)
                       THEN matchingDevice(devices, args.device)
                       ELSE matchingDeviceByUdid(devices, args.udid)
                note == IF Truthy(args.device)
                           /\ usesFirstAvailable(devices, args.device)
                        THEN <<Msg("info", "Using first available device",
                                   devices[1].name)>>
                        ELSE <<>>
            IN /\ selectedDevice' = sel
               /\ IF sel # Null
                  THEN log' = log \o note /\ Goto("runOnDevice")
                  ELSE IF Len(devices) > 0
                       THEN /\ log' = log \o note \o
                                <<Msg("error",
                                      IF Truthy(args.device)
                                      THEN "Could not find device with the name"
                                      ELSE "Could not find device with the udid",
                                      printFoundDevices(devices))>>
                            /\ Finish
                       ELSE /\ log' = log \o note \o
                                <<Msg("error", "No iOS devices connected.", <<>>)>>
                            /\ Finish
       ELSE /\ Goto("runOnSimulator")
            /\ UNCHANGED <<selectedDevice, log>>
    /\ UNCHANGED <<envVars, devices, target, targets, procVars, buildVars>>

\* return runOnDevice(selectedDevice, scheme, xcodeProject, args): a tail
\* call, the device list is not passed on
RunOnDevice ==
    /\ pc = "runOnDevice"
    /\ target' = [kind |-> "device", name |-> selectedDevice.name,
                  version |-> selectedDevice.version,
                  udid |-> selectedDevice.udid, booted |-> FALSE]
    /\ targets' = Append(targets, target')
    /\ devices' = <<>>
    /\ Goto("buildProject")
    /\ UNCHANGED <<envVars, selectedDevice, procVars, buildVars, log>>

\* return runOnSimulator(xcodeProject, scheme, args): a tail call
RunOnSimulator ==
    /\ pc = "runOnSimulator"
    /\ devices' = <<>>
    /\ Goto("simctl list")
    /\ UNCHANGED <<envVars, selectedDevice, target, targets, procVars, buildVars, log>>

\* ---------------------------------------------------------- runOnSimulator
\* variant: the catch swallows the error and the run goes on
ListSimulatorsIgnoresError ==
    /\ pc = "simctl list"
    /\ \E r \in SubprocessResults \cup {"badjson"} :
        /\ SyncReturn(r)
        /\ Goto("findMatchingSimulator")
    /\ UNCHANGED <<envVars, selVars, buildVars, log>>

\* JSON.parse(execFileSync('xcrun', ['simctl', 'list', '--json', 'devices']))
\* inside try/catch; "badjson" is output JSON.parse rejects
ListSimulators ==
    /\ pc = "simctl list"
    /\ \E r \in SubprocessResults \cup {"badjson"} :
        /\ SyncReturn(r)
        /\ IF r # "ok"
           THEN Raise(Err("CouldNotParseSimulatorList"))
           ELSE Goto("findMatchingSimulator")
    /\ UNCHANGED <<envVars, selVars, buildVars, log>>

\* variant: a missing simulator is logged and the run returns
FindMatchingSimulatorReturns ==
    /\ pc = "findMatchingSimulator"
    /\ \E sim \in Simulators \cup {Null} :
        IF sim = Null
        THEN /\ log' = Append(log, Msg("error", "Could not find simulator", <<>>))
             /\ Finish
             /\ UNCHANGED <<target, targets>>
        ELSE /\ target' = [kind |-> "simulator", name |-> sim.name,
                           version |-> sim.version, udid |-> sim.udid,
                           booted |-> sim.booted]
             /\ targets' = Append(targets, target')
             /\ Goto("xcode-select")
             /\ UNCHANGED log
    /\ UNCHANGED <<envVars, devices, selectedDevice, procVars, buildVars>>

\* findMatchingSimulator(simulators, args.simulator) and the check of its result
FindMatchingSimulator ==
    /\ pc = "findMatchingSimulator"
    /\ \E sim \in Simulators \cup {Null} :
        IF sim = Null
        THEN /\ Raise(Err("SimulatorNotFound"))
             /\ UNCHANGED <<target, targets>>
        ELSE /\ target' = [kind |-> "simulator", name |-> sim.name,
                           version |-> sim.version, udid |-> sim.udid,
                           booted |-> sim.booted]
             /\ targets' = Append(targets, target')
             /\ Goto("xcode-select")
    /\ UNCHANGED <<envVars, devices, selectedDevice, procVars, buildVars, log>>

\* execFileSync('xcode-select', ['-p'])
XcodeSelect ==
    /\ pc = "xcode-select"
    /\ \E r \in SubprocessResults :
        /\ SyncReturn(r)
        /\ IF execThrows(r) THEN Raise(Err("ExecFailed")) ELSE Goto("open")
    /\ UNCHANGED <<envVars, selVars, buildVars, log>>

\* execFileSync('open', [Simulator.app ...]) returns; then
\* if (!selectedSimulator.booted) bootSimulator(...) up to its spawnSync
OpenSimulatorApp ==
    /\ pc = "open"
    /\ \E r \in SubprocessResults :
        /\ SyncReturn(r)
        /\ IF execThrows(r)
           THEN Raise(Err("ExecFailed")) /\ UNCHANGED log
           ELSE IF ~target.booted
                THEN /\ log' = Append(log, Msg("info", "Launching simulator",
                                               formattedDeviceName(target)))
                     /\ Goto("instruments -w")
                ELSE Goto("buildProject") /\ UNCHANGED log
    /\ UNCHANGED <<envVars, selVars, buildVars>>

\* variant: the boot trigger is run with execFileSync outside the try, so
\* its failure is raised
bootSimulatorThrows ==
    /\ pc = "instruments -w"
    /\ \E r \in SubprocessResults :
        /\ SyncReturn(r)
        /\ IF execThrows(r) THEN Raise(Err("ExecFailed")) ELSE Goto("buildProject")
    /\ UNCHANGED <<envVars, selVars, buildVars, log>>

\* variant: the boot trigger is started with spawn and not waited for
bootSimulatorAsync ==
    /\ pc = "instruments -w"
    /\ running = pc
    /\ running' = "none"
    /\ Goto("buildProject")
    /\ UNCHANGED <<envVars, selVars, alive, trace, status, buildVars, log>>

\* spawnSync('xcrun', ['instruments', '-w', udid]) inside try/catch returns
bootSimulator ==
    /\ pc = "instruments -w"
    /\ \E r \in SubprocessResults :
        /\ SyncReturn(r)
        /\ Goto("buildProject")
    /\ UNCHANGED <<envVars, selVars, buildVars, log>>

\* ------------------------------------------------------------ buildProject
\* child_process.spawn of xcpretty (when xcp = "alive") and of xcodebuild,
\* and the registration of the data and close handlers
SpawnBuild(xcp, before) ==
    /\ xcpretty' = xcp
    /\ buildProcess' = "running"
    /\ alive' = before \cup {"xcodebuild"}
                \cup (IF xcp = "alive" THEN {"xcpretty"} ELSE {})
    /\ trace' = trace \o (IF xcp = "alive" THEN <<"xcpretty">> ELSE <<>>)
                \o <<"xcodebuild">>
    /\ buildOutput' = <<>>
    /\ errorOutput' = <<>>
    /\ Goto("building")

\* new Promise(...): the arguments, the "Building using" note, and either
\* the xcprettyAvailable() call or, when verbose, the spawn of xcodebuild
buildProject ==
    /\ pc = "buildProject"
    /\ promise' = "pending"
    /\ log' = Append(log, Msg("info", "Building using xcodebuild", target.udid))
    /\ IF ~args.verbose
       THEN /\ Goto("xcpretty --version")
            /\ UNCHANGED <<procVars, xcpretty, buildProcess, buildOutput, errorOutput>>
       ELSE /\ SpawnBuild("undefined", alive)
            /\ UNCHANGED <<running, status>>
    /\ UNCHANGED <<envVars, selVars, xcprettyWrites, exitCode, outChunks,
                   errChunks, stdoutData, stderrData, settled, appName>>

\* execSync('xcpretty --version') inside try/catch returns; then the spawns
xcprettyAvailable ==
    /\ pc = "xcpretty --version"
    /\ \E r \in SubprocessResults :
        /\ running = pc
        /\ running' = "none"
        /\ status' = [status EXCEPT ![pc] = r]
        /\ SpawnBuild(IF execThrows(r) THEN "false" ELSE "alive", alive \ {pc})
    /\ UNCHANGED <<envVars, selVars, xcprettyWrites, exitCode, outChunks,
                   errChunks, stdoutData, stderrData, promise, settled, appName, log>>

\* data a stream of xcodebuild can deliver in one data event
StdoutChunks ==
    {<<"EXP", "M", ".", "app", "NL">>,
     <<"EXP", "Q", "tvOS", ".", "app", "Q", "NL">>,
     <<"EXP", "lib", ".", "a", "NL">>,
     <<"h1">>,
     <<"h2">>}
StderrChunks == {<<"error: ", "h1">>, <<"h2">>}

\* buildProcess.stdout.on('data', ...)
StdoutData ==
    /\ pc = "building"
    /\ buildProcess \in {"running", "exited"}
    /\ outChunks + errChunks < MaxChunks
    /\ \E data \in StdoutChunks :
        /\ buildOutput' = buildOutput \o toString(data)
        /\ outChunks' = outChunks + 1
        /\ stdoutData' = Append(stdoutData, data)
        /\ IF xcpretty \in {"alive", "ended", "exited"}
           THEN /\ xcprettyWrites' = xcprettyWrites + 1
                /\ UNCHANGED log
           ELSE /\ log' = Append(log, Msg("info", "build output", <<>>))
                /\ UNCHANGED xcprettyWrites
    /\ UNCHANGED <<pc, envVars, selVars, procVars, xcpretty, buildProcess,
                   exitCode, errorOutput, errChunks, stderrData, promise, settled, appName,
                   result, error>>

\* buildProcess.stderr.on('data', ...)
StderrData ==
    /\ pc = "building"
    /\ buildProcess \in {"running", "exited"}
    /\ outChunks + errChunks < MaxChunks
    /\ \E data \in StderrChunks :
        /\ errorOutput' = errorOutput \o toString(data)
        /\ errChunks' = errChunks + 1
        /\ stderrData' = Append(stderrData, data)
    /\ UNCHANGED <<pc, envVars, selVars, procVars, xcpretty, xcprettyWrites,
                   buildProcess, exitCode, buildOutput, outChunks, stdoutData, promise,
                   settled, appName, log, result, error>>

\* xcodebuild exits; its streams may still hold data
BuildExit ==
    /\ pc = "building"
    /\ buildProcess = "running"
    /\ \E code \in ExitCodes : exitCode' = code
    /\ buildProcess' = "exited"
    /\ alive' = alive \ {"xcodebuild"}
    /\ UNCHANGED <<pc, envVars, selVars, running, trace, status, xcpretty,
                   xcprettyWrites, buildOutput, errorOutput, outChunks,
                   errChunks, stdoutData, stderrData, promise, settled, appName, log, result, error>>

\* variant: the rejection leaves out errorOutput
BuildCloseNoStderr ==
    /\ pc = "building"
    /\ buildProcess = "exited"
    /\ buildProcess' = "closed"
    /\ xcpretty' = IF xcpretty = "alive" THEN "ended" ELSE xcpretty
    /\ settled' = settled + 1
    /\ IF exitCode # 0
       THEN /\ promise' = "rejected"
            /\ Raise([kind |-> "BuildFailed", code |-> exitCode, stderr |-> <<>>])
            /\ UNCHANGED appName
       ELSE /\ promise' = "resolved"
            /\ appName' = Or(getProductName(buildOutput), scheme)
            /\ Goto("built")
    /\ UNCHANGED <<envVars, selVars, procVars, xcprettyWrites, exitCode,
                   buildOutput, errorOutput, outChunks, errChunks, stdoutData, stderrData, log>>

\* variant: the close handler does not look at the exit code
BuildCloseNoCodeCheck ==
    /\ pc = "building"
    /\ buildProcess = "exited"
    /\ buildProcess' = "closed"
    /\ xcpretty' = IF xcpretty = "alive" THEN "ended" ELSE xcpretty
    /\ settled' = settled + 1
    /\ promise' = "resolved"
    /\ appName' = Or(getProductName(buildOutput), scheme)
    /\ Goto("built")
    /\ UNCHANGED <<envVars, selVars, procVars, xcprettyWrites, exitCode,
                   buildOutput, errorOutput, outChunks, errChunks, stdoutData, stderrData, log>>

\* variant: a non-zero exit code leaves the promise pending
BuildCloseNeverRejects ==
    /\ pc = "building"
    /\ buildProcess = "exited"
    /\ buildProcess' = "closed"
    /\ xcpretty' = IF xcpretty = "alive" THEN "ended" ELSE xcpretty
    /\ settled' = IF exitCode # 0 THEN settled ELSE settled + 1
    /\ IF exitCode # 0
       THEN UNCHANGED <<pc, promise, appName, result, error>>
       ELSE /\ promise' = "resolved"
            /\ appName' = Or(getProductName(buildOutput), scheme)
            /\ Goto("built")
    /\ UNCHANGED <<envVars, selVars, procVars, xcprettyWrites, exitCode,
                   buildOutput, errorOutput, outChunks, errChunks, stdoutData, stderrData, log>>

\* buildProcess.on('close', code => ...); a rejection ends the awaiting
\* runOnSimulator / runOnDevice with the same error
BuildClose ==
    /\ pc = "building"
    /\ buildProcess = "exited"
    /\ buildProcess' = "closed"
    /\ xcpretty' = IF xcpretty = "alive" THEN "ended" ELSE xcpretty
    /\ settled' = settled + 1
    /\ IF exitCode # 0
       THEN /\ promise' = "rejected"
            /\ Raise([kind |-> "BuildFailed", code |-> exitCode,
                      stderr |-> errorOutput])
            /\ UNCHANGED appName
       ELSE /\ promise' = "resolved"
            /\ appName' = Or(getProductName(buildOutput), scheme)
            /\ Goto("built")
    /\ UNCHANGED <<envVars, selVars, procVars, xcprettyWrites, exitCode,
                   buildOutput, errorOutput, outChunks, errChunks, stdoutData, stderrData, log>>

\* xcpretty exits after its stdin has ended
XcprettyExit ==
    /\ xcpretty = "ended"
    /\ xcpretty' = "exited"
    /\ alive' = alive \ {"xcpretty"}
    /\ UNCHANGED <<pc, envVars, selVars, running, trace, status, xcprettyWrites,
                   buildProcess, exitCode, buildOutput, errorOutput, outChunks,
                   errChunks, stdoutData, stderrData, promise, settled, appName, log, result, error>>

\* ------------------------------------------- runOnSimulator, after the build
\* variant: the simctl install call is missing
InstallOnSimulatorSkipped ==
    /\ pc = "built"
    /\ target.kind = "simulator"
    /\ log' = Append(log, Msg("info", "Installing",
                 getBuildPath(args.configuration, appName.v, FALSE, scheme.v)))
    /\ buildOutput' = <<>>
    /\ errorOutput' = <<>>
    /\ stdoutData' = <<>>
    /\ stderrData' = <<>>
    /\ Goto("PlistBuddy")
    /\ UNCHANGED <<envVars, selVars, procVars, xcpretty, xcprettyWrites,
                   buildProcess, exitCode, outChunks, errChunks, promise,
                   settled, appName>>

\* the await resumes: getBuildPath and the "Installing" note; the build's
\* closure (buildOutput, errorOutput) is released
InstallOnSimulator ==
    /\ pc = "built"
    /\ target.kind = "simulator"
    /\ log' = Append(log, Msg("info", "Installing",
                 getBuildPath(args.configuration, appName.v, FALSE, scheme.v)))
    /\ buildOutput' = <<>>
    /\ errorOutput' = <<>>
    /\ stdoutData' = <<>>
    /\ stderrData' = <<>>
    /\ Goto("simctl install")
    /\ UNCHANGED <<envVars, selVars, procVars, xcpretty, xcprettyWrites,
                   buildProcess, exitCode, outChunks, errChunks, promise,
                   settled, appName>>

\* spawnSync('xcrun', ['simctl', 'install', ...]) returns, result unused
SimctlInstall ==
    /\ pc = "simctl install"
    /\ \E r \in SubprocessResults :
        /\ SyncReturn(r)
        /\ Goto("PlistBuddy")
    /\ UNCHANGED <<envVars, selVars, buildVars, log>>

\* execFileSync('/usr/libexec/PlistBuddy', ...) returns; the "Launching" note
ReadBundleID ==
    /\ pc = "PlistBuddy"
    /\ \E r \in SubprocessResults :
        /\ SyncReturn(r)
        /\ IF execThrows(r)
           THEN Raise(Err("ExecFailed")) /\ UNCHANGED log
           ELSE /\ log' = Append(log, Msg("info", "Launching", <<"bundleID">>))
                /\ Goto("simctl launch")
    /\ UNCHANGED <<envVars, selVars, buildVars>>

\* spawnSync('xcrun', ['simctl', 'launch', ...]) returns, result unused
SimctlLaunch ==
    /\ pc = "simctl launch"
    /\ \E r \in SubprocessResults :
        /\ SyncReturn(r)
        /\ Finish
    /\ UNCHANGED <<envVars, selVars, buildVars, log>>

\* ---------------------------------------------- runOnDevice, after the build
\* the await resumes: iosDeployInstallArgs and the "Installing and launching" note
InstallOnDevice ==
    /\ pc = "built"
    /\ target.kind = "device"
    /\ log' = Append(log, Msg("info", "Installing and launching your app",
                 getBuildPath(args.configuration, appName.v, TRUE, scheme.v)))
    /\ buildOutput' = <<>>
    /\ errorOutput' = <<>>
    /\ stdoutData' = <<>>
    /\ stderrData' = <<>>
    /\ Goto("ios-deploy")
    /\ UNCHANGED <<envVars, selVars, procVars, xcpretty, xcprettyWrites,
                   buildProcess, exitCode, outChunks, errChunks, promise,
                   settled, appName>>

\* variant: the result of ios-deploy is not looked at
IosDeployUnchecked ==
    /\ pc = "ios-deploy"
    /\ \E r \in SubprocessResults :
        /\ SyncReturn(r)
        /\ log' = Append(log, Msg("info", "** INSTALLATION SUCCEEDED **", <<>>))
        /\ Finish
    /\ UNCHANGED <<envVars, selVars, buildVars>>

\* spawnSync('ios-deploy', ...) returns; if (iosDeployOutput.error) ... else ...
IosDeploy ==
    /\ pc = "ios-deploy"
    /\ \E r \in SubprocessResults :
        /\ SyncReturn(r)
        /\ IF spawnSyncError(r)
           THEN log' = Append(log, Msg("error", "** INSTALLATION FAILED **", <<>>))
           ELSE log' = Append(log, Msg("info", "** INSTALLATION SUCCEEDED **", <<>>))
        /\ Finish
    /\ UNCHANGED <<envVars, selVars, buildVars>>

Next ==
    \/ CheckProjectPath
    \/ FindXcodeProject
    \/ SpawnSync
    \/ ListDevices
    \/ SelectDevice
    \/ RunOnDevice
    \/ RunOnSimulator
    \/ ListSimulators
    \/ FindMatchingSimulator
    \/ XcodeSelect
    \/ OpenSimulatorApp
    \/ bootSimulator
    \/ buildProject
    \/ xcprettyAvailable
    \/ StdoutData
    \/ StderrData
    \/ BuildExit
    \/ BuildClose
    \/ XcprettyExit
    \/ InstallOnSimulator
    \/ SimctlInstall
    \/ ReadBundleID
    \/ SimctlLaunch
    \/ InstallOnDevice
    \/ IosDeploy

Spec == Init /\ [][Next]_vars

\* The runs on which termination is checked: the flags that select the path
\* (device or simulator) and the output mode; scheme and configuration only
\* name the build and do not alter the control flow.
FairArgs ==
    {a \in Args : /\ a.scheme = Undefined
                  /\ a.configuration = <<"Debug">>
                  /\ a.udid = Undefined
                  /\ a.device \in {Undefined, True}}
InitFair == Init /\ args \in FairArgs
\* Every subprocess exits and the event loop delivers every pending event and
\* runs every continuation: a step that stays possible is eventually taken.
FairSpec == InitFair /\ [][Next]_vars /\ WF_vars(Next)

TypeOK ==
    /\ pc \in SyncCalls \cup {"start", "findXcodeProject", "select",
                              "runOnDevice", "runOnSimulator",
                              "findMatchingSimulator", "buildProject",
                              "building", "built", "done"}
    /\ result \in {"pending", "returned", "raised"}
    /\ alive \subseteq SyncCalls \cup {"xcodebuild", "xcpretty"}
    /\ promise \in {"none", "pending", "resolved", "rejected"}

\* ------------------------------------------------------ history operators
Spawned(p) == \E i \in 1..Len(trace) : trace[i] = p
Count(p) == Cardinality({i \in 1..Len(trace) : trace[i] = p})
Pos(p) == IF Spawned(p) THEN CHOOSE i \in 1..Len(trace) : trace[i] = p ELSE 0
Logged(level, msg) ==
    \E i \in 1..Len(log) : log[i].level = level /\ log[i].msg = msg
Failed(p) == status[p] \in {"nonzero", "error"}
BuildStarted == promise # "none" \/ Spawned("xcodebuild") \/ Spawned("xcpretty --version")
BuildSucceeded == buildProcess = "closed" /\ exitCode = 0
NoneFound ==
    /\ pc = "done"
    /\ \/ result = "raised" /\ error.kind = "SimulatorNotFound"
       \/ /\ result = "returned"
          /\ selectedDevice = Null
          /\ \/ Logged("error", "Could not find device with the name")
             \/ Logged("error", "Could not find device with the udid")
             \/ Logged("error", "No iOS devices connected.")
PostBuildSteps == {"simctl install", "PlistBuddy", "simctl launch", "ios-deploy"}

\* ------------------------------------------------------------------ claims

\* C1: once the build has been started exactly one target (device or
\* simulator) has been selected, and it was selected before; a run that
\* selected no target never starts the build, and a run whose device
\* selection failed has ended with the none-found outcome.
C1_OneTargetOrNoBuild ==
    /\ Len(targets) <= 1
    /\ BuildStarted => Len(targets) = 1 /\ targets[1] = target
    /\ NoneFound => ~BuildStarted /\ buildProcess = "none" /\ targets = <<>>
    /\ (selectedDevice = Null /\ pc # "select") => NoneFound

C1_Witness_BuildOnSelectedDevice ==
    /\ buildProcess = "running"
    /\ Len(targets) = 1
    /\ target.kind = "device"

\* C2: when xcodebuild has closed with a non-zero code the run has ended by
\* raising the build error, which carries that exit code and the stderr text
\* accumulated until the close, and no install, bundle-identifier read,
\* launch or installer process was spawned, on either path.
C2_BuildFailureAborts ==
    (buildProcess = "closed" /\ exitCode # 0) =>
        /\ pc = "done"
        /\ result = "raised"
        /\ error.kind = "BuildFailed"
        /\ error.code = exitCode
        /\ error.stderr = errorOutput
        /\ \A p \in PostBuildSteps : ~Spawned(p) /\ status[p] = "none"

C2_Witness_FailedBuildWithStderr ==
    /\ buildProcess = "closed"
    /\ exitCode = 65
    /\ result = "raised"
    /\ error.stderr # <<>>
    /\ errChunks = MaxChunks

\* C3: buildProject's promise is resolved, and an artifact name exists, only
\* when xcodebuild has closed with exit code 0; it is pending while the
\* process runs, rejected after a non-zero close, and the close handler
\* settles it at most once.
C3_ResultOnlyAfterSuccessfulClose ==
    /\ (promise = "resolved" \/ appName # Undefined) => BuildSucceeded
    /\ buildProcess \in {"running", "exited"} => promise = "pending" /\ settled = 0
    /\ (buildProcess = "closed" /\ exitCode # 0) => promise = "rejected"
    /\ settled <= 1
    /\ (settled = 1) <=> (promise \in {"resolved", "rejected"})

C3_Witness_ResolvedAfterClose ==
    /\ promise = "resolved"
    /\ buildProcess = "closed"
    /\ outChunks > 0
    /\ appName # Undefined

\* C4: the steps of a run are spawned at most once each and in the order
\* target selected, build started, build succeeded, install, launch: the
\* install (simctl install / ios-deploy) only after the build succeeded,
\* the bundle-identifier read and the launch only after the install
\* returned.
C4_StepOrder ==
    /\ \A p \in PostBuildSteps \cup {"xcodebuild", "xcpretty", "instruments -w"} :
            Count(p) <= 1
    /\ Spawned("xcodebuild") => Len(targets) = 1
    /\ \A p \in {"simctl install", "ios-deploy"} :
            Spawned(p) => BuildSucceeded /\ Pos("xcodebuild") < Pos(p)
    /\ Spawned("PlistBuddy") =>
            /\ status["simctl install"] # "none"
            /\ Pos("simctl install") < Pos("PlistBuddy")
    /\ Spawned("simctl launch") =>
            /\ status["simctl install"] # "none"
            /\ status["PlistBuddy"] # "none"
            /\ Pos("simctl install") < Pos("simctl launch")
            /\ Pos("PlistBuddy") < Pos("simctl launch")
    /\ Spawned("ios-deploy") => target.kind = "device" /\ ~Spawned("simctl install")
    /\ Spawned("simctl install") => target.kind = "simulator"

C4_Witness_LaunchAfterInstall ==
    /\ running = "simctl launch"
    /\ status["simctl install"] = "nonzero"
    /\ BuildSucceeded

\* C5: on the simulator path, once the build has succeeded, the run ends
\* by returning and with the launch attempted, whichever of simctl install,
\* the bundle-identifier read and simctl launch failed.
C5_PostBuildFailuresDoNotAbort ==
    (pc = "done" /\ BuildSucceeded /\ target.kind = "simulator") =>
        /\ result = "returned"
        /\ Spawned("simctl launch")

\* C6: a run that has ended after its install, launch or installer process
\* failed has logged a failure message and no success message.
C6_FailuresAreReported ==
    \A p \in {"simctl install", "simctl launch", "ios-deploy"} :
        (pc = "done" /\ Failed(p)) =>
            /\ \E i \in 1..Len(log) : log[i].level = "error"
            /\ ~Logged("info", "** INSTALLATION SUCCEEDED **")

\* C7: on the device path, once the build has succeeded and the run has
\* ended, ios-deploy was spawned exactly once and the run returned without
\* raising; the failure hint was logged and the success message was not
\* when spawnSync reported an error, and the other way round otherwise.
C7_InstallerOutcome ==
    /\ Count("ios-deploy") <= 1
    /\ (pc = "done" /\ BuildSucceeded /\ target.kind = "device") =>
        /\ Count("ios-deploy") = 1
        /\ result = "returned"
        /\ error = Null
        /\ spawnSyncError(status["ios-deploy"]) <=>
                Logged("error", "** INSTALLATION FAILED **")
        /\ ~spawnSyncError(status["ios-deploy"]) <=>
                Logged("info", "** INSTALLATION SUCCEEDED **")

C7_Witness_InstallerError ==
    /\ pc = "done"
    /\ BuildSucceeded
    /\ target.kind = "device"
    /\ status["ios-deploy"] = "error"
    /\ Logged("error", "** INSTALLATION FAILED **")

\* C8: on the simulator path, after the boot-trigger process of a simulator
\* that was not booted has failed, no error has been logged, the run has
\* gone on to buildProject, and it cannot have ended without xcodebuild
\* having been started.
C8_BootFailureSwallowed ==
    Failed("instruments -w") =>
        /\ target.kind = "simulator" /\ ~target.booted
        /\ \A i \in 1..Len(log) : log[i].level # "error"
        /\ pc \in {"buildProject", "xcpretty --version", "building", "built",
                   "simctl install", "PlistBuddy", "simctl launch", "done"}
        /\ pc = "done" => Spawned("xcodebuild")
        /\ result = "raised" => Spawned("xcodebuild")

C8_Witness_BuildAfterFailedBoot ==
    /\ status["instruments -w"] = "error"
    /\ buildProcess = "running"
    /\ result = "pending"

\* C9 as claimed: at most one child process of the run is alive at any time.
C9_AtMostOneProcessAlive == Cardinality(alive) <= 1

\* C9 as amended: leaving the xcpretty filter aside, at most one child
\* process of the run is alive at any time; xcpretty is alive only in a
\* non-verbose run that found it available, from before xcodebuild is
\* spawned until it exits after its stdin was ended at the close of the build.
C9_AtMostOneProcessBesidesXcpretty ==
    /\ Cardinality(alive \ {"xcpretty"}) <= 1
    /\ "xcpretty" \in alive =>
        /\ ~args.verbose
        /\ status["xcpretty --version"] = "ok"
        /\ xcpretty \in {"alive", "ended"}
        /\ Pos("xcpretty") < Pos("xcodebuild")
    /\ (xcpretty = "alive") <=> (buildProcess \in {"running", "exited"}
                                  /\ "xcpretty" \in alive)

C9_Witness_XcprettyBesideInstall ==
    alive = {"xcpretty", "simctl install"}

\* C10: when the run has selected by identifier, the device list still
\* being at hand, the selection is the last device of the list whose udid
\* equals the selector, and it is null exactly when no device has that udid.
SelectedByUdid ==
    /\ selectedDevice # Undefined
    /\ target = Null
    /\ ~Truthy(args.device)
    /\ Truthy(args.udid)

C10_LastDeviceWithUdid ==
    SelectedByUdid =>
        LET hits == {i \in 1..Len(devices) : devices[i].udid = args.udid.v}
        IN /\ (selectedDevice = Null) <=> (hits = {})
           /\ hits # {} =>
                \E i \in hits : /\ \A j \in hits : j <= i
                                /\ selectedDevice = devices[i]

C10_Witness_DuplicateUdid ==
    /\ SelectedByUdid
    /\ Len(devices) = 2
    /\ devices[1].udid = devices[2].udid
    /\ devices[1] # devices[2]
    /\ selectedDevice = devices[2]

\* C11: when the run has selected by a literal name, the device list still
\* being at hand, the selection is the last device of the list whose name,
\* or whose "name (version)" form, equals the selector, and it is null
\* exactly when no device matches either way.
SelectedByName ==
    /\ selectedDevice # Undefined
    /\ target = Null
    /\ args.device.t = "string"
    /\ args.device.v # <<>>

C11_LastDeviceWithName ==
    SelectedByName =>
        LET hits == {i \in 1..Len(devices) :
                        \/ devices[i].name = args.device.v
                        \/ devices[i].name \o <<" (", devices[i].version, ")">>
                             = args.device.v}
        IN /\ (selectedDevice = Null) <=> (hits = {})
           /\ hits # {} =>
                \E i \in hits : /\ \A j \in hits : j <= i
                                /\ selectedDevice = devices[i]

C11_Witness_ComposedNamePicksVersion ==
    /\ SelectedByName
    /\ args.device.v = <<"iPhone 8", " (", "13.0", ")">>
    /\ Len(devices) = 2
    /\ devices[1].name = <<"iPhone 8">> /\ devices[1].version = "13.0"
    /\ devices[2].name = <<"iPhone 8">> /\ devices[2].version = "12.0"
    /\ selectedDevice = devices[1]

\* C12: when the run has selected with the device flag given without a
\* value, the selection is the only device of a one-device list, and null
\* for the empty list and for every list of two or more devices.
SelectedAny ==
    /\ selectedDevice # Undefined
    /\ target = Null
    /\ args.device = True

C12_AnySelectsSoleDevice ==
    SelectedAny =>
        /\ Len(devices) = 1 => selectedDevice = devices[1]
        /\ Len(devices) # 1 => selectedDevice = Null

C12_Witness_AnyWithTwoDevices ==
    /\ SelectedAny
    /\ Len(devices) = 2
    /\ devices[1].name # devices[2].name
    /\ selectedDevice = Null

\* C13: when a selector was given and no device matched, the run has ended
\* by returning, without going to the simulator path or selecting a target;
\* its last message is the "choose one of" error, naming the selector kind
\* and listing every enumerated device, if and only if the list is not
\* empty, and the "No iOS devices connected." error if and only if it is.
ListingOf(d) == d.name \o <<" Udid: ">> \o d.udid \o <<"\n">>
OccursIn(part, text) ==
    \E k \in 0..(Len(text) - Len(part)) : SubSeq(text, k + 1, k + Len(part)) = part
RECURSIVE ListingLength(_, _)
ListingLength(devs, n) ==
    IF n = 0 THEN 0 ELSE Len(ListingOf(devs[n])) + ListingLength(devs, n - 1)

C13_NotFoundDiagnostic ==
    selectedDevice = Null =>
        /\ pc = "done"
        /\ result = "returned"
        /\ targets = <<>>
        /\ ~Spawned("simctl list")
        /\ ~BuildStarted
        /\ Len(log) > 0
        /\ log[Len(log)].level = "error"
        /\ \A i \in 1..(Len(log) - 1) : log[i].level # "error"
        /\ IF Len(devices) > 0
           THEN /\ log[Len(log)].msg =
                        IF Truthy(args.device)
                        THEN "Could not find device with the name"
                        ELSE "Could not find device with the udid"
                /\ \A i \in 1..Len(devices) :
                        OccursIn(ListingOf(devices[i]), log[Len(log)].data)
                /\ Len(log[Len(log)].data) = ListingLength(devices, Len(devices))
           ELSE log[Len(log)] = Msg("error", "No iOS devices connected.", <<>>)

C13_Witness_UdidNotAmongTwoDevices ==
    /\ selectedDevice = Null
    /\ pc = "done"
    /\ args.udid = Str(<<"u3">>)
    /\ ~Truthy(args.device)
    /\ Len(devices) = 2
    /\ devices[1] # devices[2]
    /\ Logged("error", "Could not find device with the udid")

\* C14: once the devices are enumerated and the selection step is over, a
\* run with neither selector (an absent or empty flag) is on the simulator
\* path, with no error logged or raised by the selection and no device
\* looked for, whatever the device list, the empty one included; a run
\* with a selector never enters the simulator path.
NoSelector == ~Truthy(args.device) /\ ~Truthy(args.udid)
SelectionOver == status["instruments -s"] = "ok" /\ pc # "select"
OnSimulatorPath ==
    pc = "runOnSimulator" \/ pc = "simctl list" \/ Spawned("simctl list")

C14_NoSelectorFallsThrough ==
    /\ pc = "runOnSimulator" =>
            /\ NoSelector
            /\ result = "pending"
            /\ error = Null
            /\ targets = <<>>
    /\ (SelectionOver /\ NoSelector) =>
            /\ OnSimulatorPath
            /\ selectedDevice = Undefined
            /\ \A i \in 1..Len(log) : log[i].level # "error"
    /\ (SelectionOver /\ ~NoSelector) =>
            /\ ~OnSimulatorPath
            /\ selectedDevice # Undefined

C14_Witness_EmptyListNoSelector ==
    /\ pc = "runOnSimulator"
    /\ devices = <<>>
    /\ args.device = Undefined
    /\ args.udid = Undefined
    /\ result = "pending"

\* a selector matched no device / findMatchingSimulator found no simulator
NoDeviceMatched == selectedDevice = Null
NoSimulatorMatched ==
    /\ status["simctl list"] = "ok"
    /\ pc # "findMatchingSimulator"
    /\ target = Null

\* C15 as claimed: when no target matched, on either path, the run has
\* ended by returning, with an error message logged, no error raised and
\* the build not started.
C15_NotFoundReturnsNormally ==
    (NoDeviceMatched \/ NoSimulatorMatched) =>
        /\ pc = "done"
        /\ result = "returned"
        /\ error = Null
        /\ \E i \in 1..Len(log) : log[i].level = "error"
        /\ ~BuildStarted

\* C15 as amended: when no target matched the run has ended before the
\* build; on the device-selector path it logged an error message and
\* returned without raising, on the simulator path it raised the
\* "Could not find ... simulator" error and logged no error message.
C15_NotFoundStopsBeforeBuild ==
    /\ NoDeviceMatched =>
            /\ pc = "done"
            /\ result = "returned"
            /\ error = Null
            /\ log[Len(log)].level = "error"
            /\ ~BuildStarted
    /\ NoSimulatorMatched =>
            /\ pc = "done"
            /\ result = "raised"
            /\ error = Err("SimulatorNotFound")
            /\ \A i \in 1..Len(log) : log[i].level # "error"
            /\ ~BuildStarted
            /\ \A p \in {"xcode-select", "open", "instruments -w"} : ~Spawned(p)

C15_Witness_SimulatorNotFound ==
    /\ NoSimulatorMatched
    /\ pc = "done"
    /\ result = "raised"

\* C16: a run whose project folder or project files were not found has
\* ended by raising that error without having spawned any process, the
\* device enumeration included; a run whose simulator list could not be
\* read or parsed has ended by raising that error with no target selected
\* and no open, boot, build, install, launch or installer process spawned.
ConfigurationFailed ==
    /\ pc \notin {"start", "findXcodeProject"}
    /\ xcodeProject = Null
InventoryFailed == status["simctl list"] \in {"nonzero", "error", "badjson"}

C16_ConfigAndInventoryErrorsAbort ==
    /\ ConfigurationFailed =>
            /\ pc = "done"
            /\ result = "raised"
            /\ error \in {Err("ProjectFolderNotFound"), Err("XcodeProjectNotFound")}
            /\ trace = <<>>
            /\ alive = {}
            /\ status["instruments -s"] = "none"
            /\ ~BuildStarted
    /\ InventoryFailed =>
            /\ pc = "done"
            /\ result = "raised"
            /\ error = Err("CouldNotParseSimulatorList")
            /\ target = Null
            /\ ~BuildStarted
            /\ \A p \in {"xcode-select", "open", "instruments -w", "xcodebuild",
                         "xcpretty"} \cup PostBuildSteps : ~Spawned(p)
    /\ (result = "raised" /\ error.kind \in {"ProjectFolderNotFound",
                                             "XcodeProjectNotFound"}) =>
            ConfigurationFailed
    /\ (result = "raised" /\ error.kind = "CouldNotParseSimulatorList") =>
            InventoryFailed

C16_Witness_UnparseableSimulatorList ==
    /\ status["simctl list"] = "badjson"
    /\ pc = "done"
    /\ result = "raised"
    /\ Spawned("instruments -s")

\* C17: the path the run announces for its install step is
\* build/<scheme>/Build/Products/<configuration>-<triplet>/<artifact>.app,
\* the triplet being iphoneos on the device path whatever the name,
\* appletvsimulator on the simulator path when the artifact name holds the
\* letters t, v, o, s in a row in any case, and iphonesimulator otherwise.
NameHasTvos ==
    LET chars == toLowerCase(appName.v)
    IN \E k \in 1..(Len(chars) - 3) :
        /\ chars[k] = "t"
        /\ chars[k + 1] = "v"
        /\ chars[k + 2] = "o"
        /\ chars[k + 3] = "s"
PathWith(triplet) ==
    <<"build/">> \o scheme.v \o <<"/Build/Products/">> \o args.configuration
    \o <<"-", triplet, "/">> \o appName.v \o <<".app">>

C17_BuildPath ==
    \A i \in 1..Len(log) :
        /\ log[i].msg = "Installing" =>
                /\ target.kind = "simulator"
                /\ log[i].data = PathWith(IF NameHasTvos THEN "appletvsimulator"
                                          ELSE "iphonesimulator")
        /\ log[i].msg = "Installing and launching your app" =>
                /\ target.kind = "device"
                /\ log[i].data = PathWith("iphoneos")

C17_Witness_TvSimulatorPath ==
    /\ pc = "simctl install"
    /\ appName = Str(<<"My", "TV", "os">>)
    /\ args.configuration = <<"Release">>
    /\ log[Len(log)].data =
            <<"build/", "My", "TV", "os", "/Build/Products/", "Release", "-",
              "appletvsimulator", "/", "My", "TV", "os", ".app">>

\* tokens of the stdout line that starts at token i
LineFrom(i) ==
    LET stops == {k \in i..Len(buildOutput) : buildOutput[k] = "NL"} \cup
                 {Len(buildOutput) + 1}
        stop == CHOOSE k \in stops : \A m \in stops : k <= m
    IN SubSeq(buildOutput, i, stop - 1)
\* the names for which the line at i reads  export FULL_PRODUCT_NAME="?<name>.app"?
ProductNames(i) ==
    LET line == LineFrom(i)
        parts == {SubSeq(line, a, b) : a \in 2..Len(line), b \in 2..Len(line)}
        quote == {<<>>, <<"Q">>}
    IN {name \in parts \ {<<>>} :
            \E q1 \in quote, q2 \in quote, d \in 1..Len(line) :
                line = <<"EXP">> \o q1 \o name \o <<line[d], "app">> \o q2}
ProductLines ==
    {i \in 1..Len(buildOutput) : buildOutput[i] = "EXP" /\ ProductNames(i) # {}}
ExportLines == {i \in 1..Len(buildOutput) : buildOutput[i] = "EXP"}

\* C18 as stated: the artifact name is read from the first line that exports
\* FULL_PRODUCT_NAME, and is the scheme name only when no line exports it.
C18_NameFromFirstExportLine ==
    pc = "built" =>
        IF ExportLines = {} THEN appName = scheme
        ELSE LET first == CHOOSE i \in ExportLines : \A j \in ExportLines : i <= j
                 line == LineFrom(first)
             IN \E a \in 1..Len(line), b \in 1..Len(line) :
                    appName.v = SubSeq(line, a, b)

\* C18: after a successful build the artifact name is the name captured from
\* the first stdout line of the form export FULL_PRODUCT_NAME="?<name>.app"?
\* that ends right after app or its closing quote (export lines of any other
\* form are passed over), the opening quote not being part of the name; when
\* no line has that form it is the scheme name; and extracting again from the
\* text the build accumulated gives the name the build resolved with.
C18_NameFromFirstAppLine ==
    pc = "built" =>
        /\ IF ProductLines = {} THEN appName = scheme
           ELSE LET first == CHOOSE i \in ProductLines : \A j \in ProductLines : i <= j
                    names == ProductNames(first)
                IN /\ appName.v \in names
                   /\ \A n \in names : Len(appName.v) <= Len(n)
        /\ appName = Or(getProductName(buildOutput), scheme)

C18_Witness_AppLineAfterLibraryLine ==
    /\ pc = "built"
    /\ buildOutput = <<"EXP", "lib", ".", "a", "NL", "EXP", "M", ".", "app", "NL">>
    /\ appName = Str(<<"M">>)

\* the bytes a stream has delivered, in order
RECURSIVE StreamBytes(_)
StreamBytes(chunks) ==
    IF chunks = <<>> THEN <<>>
    ELSE Head(chunks) \o StreamBytes(Tail(chunks))

\* C19: while the build runs and when it has closed, whatever the order in
\* which stdout and stderr data events arrived, the accumulated stdout is the
\* text of the bytes stdout delivered, in order, and the accumulated stderr
\* the text of the bytes stderr delivered, in order.
C19_OutputIsStreamContents ==
    pc \in {"building", "built"} =>
        /\ buildOutput = toString(StreamBytes(stdoutData))
        /\ errorOutput = toString(StreamBytes(stderrData))

====
